---- MODULE Spec2Model ----
(***************************************************************************)
(* The css selector builder of src/src/05-objects-tasks.js.                *)
(*                                                                         *)
(* Objects are the facade cssSelectorBuilder (object 0) and the objects    *)
(* made by its methods.  An object may own the properties str and arr;     *)
(* arr is a reference to a JavaScript array, so the arrays live in a heap  *)
(* and several objects may hold the same reference.                        *)
(***************************************************************************)
EXTENDS Integers, Sequences, FiniteSets, TLC

\* ------------------------------------------------------------------ bounds
MaxFrags == 3        \* objects created besides the facade
MaxPushes == 3       \* entries pushed onto the arrays, by calls that returned or threw

Values == {"a", "b"}
Combinators == {"~"}

\* --------------------------------------------------------------- constants
Kinds == {"element", "id", "class", "attribute", "pseudo-class", "pseudo-element"}

SingletonKinds == {"element", "id", "pseudo-element"}

order == [k \in Kinds |->
            CASE k = "element" -> 0
              [] k = "id" -> 1
              [] k = "class" -> 2
              [] k = "attribute" -> 3
              [] k = "pseudo-class" -> 4
              [] k = "pseudo-element" -> 5]

NoError == "none"
DuplicateError == "Element, id and pseudo-element should not occur more then one time inside the selector"
OrderError == "Selector parts should be arranged in the following order: element, id, class, attribute, pseudo-class, pseudo-element"

VARIABLES objs, heap, made, lastOp

vars == <<objs, heap, made, lastOp>>

\* ------------------------------------------------------------ pure helpers
\* arr.find((item) => item === kind), as a truth value
Find(arr, kind) == \E i \in 1..Len(arr) : arr[i] = kind

\* Array.from(new Set(arr)): first occurrences, in insertion order
RECURSIVE Dedup(_)
Dedup(arr) ==
  IF arr = <<>> THEN <<>>
  ELSE LET init == Dedup(SubSeq(arr, 1, Len(arr) - 1))
           last == arr[Len(arr)]
       IN IF Find(init, last) THEN init ELSE Append(init, last)

\* the forEach of inOrderCheck with <= for <
RECURSIVE OrderLoop_Strict(_, _)
OrderLoop_Strict(arr, prevOrder) ==
  IF arr = <<>> THEN NoError
  ELSE IF order[Head(arr)] <= prevOrder THEN OrderError
  ELSE OrderLoop_Strict(Tail(arr), order[Head(arr)])

\* the forEach of inOrderCheck: prevOrder runs along the deduplicated array
RECURSIVE OrderLoop(_, _)
OrderLoop(arr, prevOrder) ==
  IF arr = <<>> THEN NoError
  ELSE IF order[Head(arr)] < prevOrder THEN OrderError
  ELSE OrderLoop(Tail(arr), order[Head(arr)])

\* inOrderCheck(obj) for an obj that owns arr; the error it throws, if any
inOrderCheck(arr) == OrderLoop(Dedup(arr), 0)

\* stringify without the default for an object that owns no str
stringify_NoDefault(obj) == IF obj.hasStr THEN obj.str ELSE "undefined"

\* this.str || ''
stringify(obj) == IF obj.hasStr THEN obj.str ELSE ""

\* ------------------------------------------------------------ constructors
\* Each takes (value, str, arr) with arr already defaulted (arr || []), and
\* yields the error thrown, the contents of this.arr when the constructor
\* ends, and this.str.
\* MyElement without its duplicate check
MyElement_NoCheck(value, s, arr) ==
  [thrown |-> NoError, arr |-> Append(arr, "element"), str |-> s \o value]

MyElement(value, s, arr) ==
  IF Find(arr, "element")
    THEN [thrown |-> DuplicateError, arr |-> arr, str |-> ""]
    ELSE [thrown |-> NoError, arr |-> Append(arr, "element"), str |-> s \o value]

\* MyId without its duplicate check
MyId_NoCheck(value, s, arr) ==
  [thrown |-> NoError, arr |-> Append(arr, "id"), str |-> s \o "#" \o value]

MyId(value, s, arr) ==
  IF Find(arr, "id")
    THEN [thrown |-> DuplicateError, arr |-> arr, str |-> ""]
    ELSE [thrown |-> NoError, arr |-> Append(arr, "id"), str |-> s \o "#" \o value]

MyClass(value, s, arr) ==
  [thrown |-> NoError, arr |-> Append(arr, "class"), str |-> s \o "." \o value]

MyAttr(value, s, arr) ==
  [thrown |-> NoError, arr |-> Append(arr, "attribute"), str |-> s \o "[" \o value \o "]"]

MyPseudoClass(value, s, arr) ==
  [thrown |-> NoError, arr |-> Append(arr, "pseudo-class"), str |-> s \o ":" \o value]

MyPseudoElement(value, s, arr) ==
  IF Find(arr, "pseudo-element")
    THEN [thrown |-> DuplicateError, arr |-> arr, str |-> ""]
    ELSE [thrown |-> NoError, arr |-> Append(arr, "pseudo-element"), str |-> s \o "::" \o value]

\* CombineSelector without the spaces around the combinator
CombineSelector_NoSpaces(s1, combinator, s2) == s1 \o combinator \o s2

CombineSelector(s1, combinator, s2) == s1 \o " " \o combinator \o " " \o s2

\* ------------------------------------------------------------------- state
Objects == DOMAIN objs

Facade == 0

\* the arr argument handed to a constructor: this.arr, defaulted by arr || []
ArrArg(f) == IF objs[f].hasArr THEN heap[objs[f].arr] ELSE <<>>

\* entries pushed so far, over all arrays
RECURSIVE TotalLen(_)
TotalLen(h) == IF h = <<>> THEN 0 ELSE Len(Head(h)) + TotalLen(Tail(h))

NoOp == [op |-> "init", target |-> 0, kind |-> "", value |-> "", other |-> 0,
         outcome |-> NoError, ret |-> 0, pre |-> <<>>, out |-> ""]

Init ==
  /\ objs = [f \in {Facade} |-> [hasStr |-> FALSE, str |-> "", hasArr |-> FALSE, arr |-> 0]]
  /\ heap = <<>>
  /\ made = [f \in {Facade} |-> [op |-> "facade", a |-> 0, k |-> "", v |-> "", b |-> 0]]
  /\ lastOp = NoOp

\* --------------------------------------------------------- facade methods
\* The method body, had it extended the text of the object it is called on
\* in place as it extends the array
Method_SharedStr(f, name, kind, value, r) ==
  LET n == Cardinality(Objects) - 1
      aliased == objs[f].hasArr
      ref == IF aliased THEN objs[f].arr ELSE Len(heap) + 1
      err == IF r.thrown # NoError THEN r.thrown ELSE inOrderCheck(r.arr)
      obj == [hasStr |-> TRUE, str |-> r.str, hasArr |-> TRUE, arr |-> ref]
  IN /\ err = NoError => n < MaxFrags
     /\ heap' = IF aliased THEN [heap EXCEPT ![ref] = r.arr]
                ELSE IF err = NoError THEN Append(heap, r.arr)
                ELSE heap
     /\ IF err = NoError
          THEN /\ objs' = [g \in 0..(n + 1) |->
                             IF g = n + 1 THEN obj
                             ELSE IF g = f /\ aliased THEN [objs[g] EXCEPT !.str = r.str]
                             ELSE objs[g]]
               /\ made' = [g \in 0..(n + 1) |-> IF g <= n THEN made[g]
                             ELSE [op |-> "append", a |-> f, k |-> kind, v |-> value, b |-> 0]]
          ELSE UNCHANGED <<objs, made>>
     /\ TotalLen(heap') <= MaxPushes
     /\ lastOp' = [op |-> name, target |-> f, kind |-> kind, value |-> value, other |-> 0,
                   outcome |-> err, ret |-> IF err = NoError THEN n + 1 ELSE 0,
                   pre |-> ArrArg(f), out |-> ""]

\* The method body, had it kept the array it creates on the object it is
\* called on (this.arr = this.arr || []) when that object owns none
Method_KeepsArr(f, name, kind, value, r) ==
  LET n == Cardinality(Objects) - 1
      aliased == objs[f].hasArr
      ref == IF aliased THEN objs[f].arr ELSE Len(heap) + 1
      err == IF r.thrown # NoError THEN r.thrown ELSE inOrderCheck(r.arr)
      obj == [hasStr |-> TRUE, str |-> r.str, hasArr |-> TRUE, arr |-> ref]
  IN /\ err = NoError => n < MaxFrags
     /\ heap' = IF aliased THEN [heap EXCEPT ![ref] = r.arr]
                ELSE IF err = NoError THEN Append(heap, r.arr)
                ELSE heap
     /\ IF err = NoError
          THEN /\ objs' = [g \in 0..(n + 1) |->
                             IF g = n + 1 THEN obj
                             ELSE IF g = f /\ ~aliased
                               THEN [objs[g] EXCEPT !.hasArr = TRUE, !.arr = ref]
                             ELSE objs[g]]
               /\ made' = [g \in 0..(n + 1) |-> IF g <= n THEN made[g]
                             ELSE [op |-> "append", a |-> f, k |-> kind, v |-> value, b |-> 0]]
          ELSE UNCHANGED <<objs, made>>
     /\ TotalLen(heap') <= MaxPushes
     /\ lastOp' = [op |-> name, target |-> f, kind |-> kind, value |-> value, other |-> 0,
                   outcome |-> err, ret |-> IF err = NoError THEN n + 1 ELSE 0,
                   pre |-> ArrArg(f), out |-> ""]

\* The body shared by element/id/class/attr/pseudoClass/pseudoElement, called
\* on object f: r is what the constructor did, given this.stringify() and
\* this.arr.  The new object aliases f's array when f owns one.
Method(f, name, kind, value, r) ==
  LET n == Cardinality(Objects) - 1
      aliased == objs[f].hasArr
      ref == IF aliased THEN objs[f].arr ELSE Len(heap) + 1
      err == IF r.thrown # NoError THEN r.thrown ELSE inOrderCheck(r.arr)
      obj == [hasStr |-> TRUE, str |-> r.str, hasArr |-> TRUE, arr |-> ref]
  IN /\ err = NoError => n < MaxFrags
     /\ heap' = IF aliased THEN [heap EXCEPT ![ref] = r.arr]
                ELSE IF err = NoError THEN Append(heap, r.arr)
                ELSE heap
     /\ IF err = NoError
          THEN /\ objs' = [g \in 0..(n + 1) |-> IF g <= n THEN objs[g] ELSE obj]
               /\ made' = [g \in 0..(n + 1) |-> IF g <= n THEN made[g]
                             ELSE [op |-> "append", a |-> f, k |-> kind, v |-> value, b |-> 0]]
          ELSE UNCHANGED <<objs, made>>
     /\ TotalLen(heap') <= MaxPushes
     /\ lastOp' = [op |-> name, target |-> f, kind |-> kind, value |-> value, other |-> 0,
                   outcome |-> err, ret |-> IF err = NoError THEN n + 1 ELSE 0,
                   pre |-> ArrArg(f), out |-> ""]

Element(f, value) ==
  Method(f, "element", "element", value, MyElement(value, stringify(objs[f]), ArrArg(f)))

Id(f, value) ==
  Method(f, "id", "id", value, MyId(value, stringify(objs[f]), ArrArg(f)))

Class(f, value) ==
  Method(f, "class", "class", value, MyClass(value, stringify(objs[f]), ArrArg(f)))

Attr(f, value) ==
  Method(f, "attr", "attribute", value, MyAttr(value, stringify(objs[f]), ArrArg(f)))

PseudoClass(f, value) ==
  Method(f, "pseudoClass", "pseudo-class", value, MyPseudoClass(value, stringify(objs[f]), ArrArg(f)))

PseudoElement(f, value) ==
  Method(f, "pseudoElement", "pseudo-element", value, MyPseudoElement(value, stringify(objs[f]), ArrArg(f)))

\* combine, had the combined selector kept the arr of its right operand
Combine_KeepsArr(selector1, combinator, selector2) ==
  LET n == Cardinality(Objects) - 1
      obj == [hasStr |-> TRUE,
              str |-> CombineSelector(stringify(objs[selector1]), combinator, stringify(objs[selector2])),
              hasArr |-> objs[selector2].hasArr, arr |-> objs[selector2].arr]
  IN /\ n < MaxFrags
     /\ objs' = [g \in 0..(n + 1) |-> IF g <= n THEN objs[g] ELSE obj]
     /\ made' = [g \in 0..(n + 1) |-> IF g <= n THEN made[g]
                   ELSE [op |-> "combine", a |-> selector1, k |-> "", v |-> combinator, b |-> selector2]]
     /\ UNCHANGED heap
     /\ lastOp' = [op |-> "combine", target |-> selector1, kind |-> "", value |-> combinator,
                   other |-> selector2, outcome |-> NoError, ret |-> n + 1,
                   pre |-> <<>>, out |-> ""]

Combine(selector1, combinator, selector2) ==
  LET n == Cardinality(Objects) - 1
      obj == [hasStr |-> TRUE,
              str |-> CombineSelector(stringify(objs[selector1]), combinator, stringify(objs[selector2])),
              hasArr |-> FALSE, arr |-> 0]
  IN /\ n < MaxFrags
     /\ objs' = [g \in 0..(n + 1) |-> IF g <= n THEN objs[g] ELSE obj]
     /\ made' = [g \in 0..(n + 1) |-> IF g <= n THEN made[g]
                   ELSE [op |-> "combine", a |-> selector1, k |-> "", v |-> combinator, b |-> selector2]]
     /\ UNCHANGED heap
     /\ lastOp' = [op |-> "combine", target |-> selector1, kind |-> "", value |-> combinator,
                   other |-> selector2, outcome |-> NoError, ret |-> n + 1,
                   pre |-> <<>>, out |-> ""]

Stringify(f) ==
  /\ lastOp' = [op |-> "stringify", target |-> f, kind |-> "", value |-> "", other |-> 0,
                outcome |-> NoError, ret |-> 0, pre |-> <<>>, out |-> stringify(objs[f])]
  /\ UNCHANGED <<objs, heap, made>>

Next ==
  \/ \E f \in Objects, value \in Values : Element(f, value)
  \/ \E f \in Objects, value \in Values : Id(f, value)
  \/ \E f \in Objects, value \in Values : Class(f, value)
  \/ \E f \in Objects, value \in Values : Attr(f, value)
  \/ \E f \in Objects, value \in Values : PseudoClass(f, value)
  \/ \E f \in Objects, value \in Values : PseudoElement(f, value)
  \/ \E s1 \in Objects, s2 \in Objects, c \in Combinators : Combine(s1, c, s2)
  \/ \E f \in Objects : Stringify(f)

Spec == Init /\ [][Next]_vars

TypeOK ==
  /\ \A f \in Objects : objs[f].hasArr => objs[f].arr \in 1..Len(heap)
  /\ \A i \in 1..Len(heap) : \A j \in 1..Len(heap[i]) : heap[i][j] \in Kinds

\* ----------------------------------------------------- reading the history
\* usedKinds of object f: the contents of the array f.arr refers to
UsedKinds(f) == ArrArg(f)

\* the text the selector grammar gives one component
\*   element#id.class[attr]:pseudoClass::pseudoElement
Format(kind, value) ==
  CASE kind = "element" -> value
    [] kind = "id" -> "#" \o value
    [] kind = "class" -> "." \o value
    [] kind = "attribute" -> "[" \o value \o "]"
    [] kind = "pseudo-class" -> ":" \o value
    [] kind = "pseudo-element" -> "::" \o value

\* the kinds of the calls that built f, oldest first (empty for the facade and
\* for a combined selector)
RECURSIVE OwnKinds(_)
OwnKinds(f) ==
  IF made[f].op = "append" THEN Append(OwnKinds(made[f].a), made[f].k) ELSE <<>>

\* the text the calls that built f describe
RECURSIVE ChainText(_)
ChainText(f) ==
  CASE made[f].op = "append" -> ChainText(made[f].a) \o Format(made[f].k, made[f].v)
    [] made[f].op = "combine" ->
         ChainText(made[f].a) \o " " \o made[f].v \o " " \o ChainText(made[f].b)
    [] OTHER -> ""

AppendChildren(f) == {g \in Objects : made[g].op = "append" /\ made[g].a = f}

Count(arr, kind) == Cardinality({i \in 1..Len(arr) : arr[i] = kind})

NonDecreasing(arr) ==
  \A i \in 1..Len(arr) : \A j \in i..Len(arr) : order[arr[i]] <= order[arr[j]]

SingletonsOnce(arr) == \A k \in SingletonKinds : Count(arr, k) <= 1

HasHigher(arr, kind) == \E i \in 1..Len(arr) : order[arr[i]] > order[kind]

\* the last call was element/id/class/attr/pseudoClass/pseudoElement
IsAppend == lastOp.kind \in Kinds

\* ------------------------------------------------------------------ claims

\* C1: no fragment's usedKinds holds element, id or pseudo-element more than
\* once, whatever calls were made; element, id or pseudoElement called on a
\* fragment whose usedKinds already holds that kind throws the duplicate error
\* and returns no fragment.
C1_SingletonInvariant ==
  /\ \A f \in Objects : SingletonsOnce(UsedKinds(f))
  /\ (IsAppend /\ lastOp.kind \in SingletonKinds /\ Find(lastOp.pre, lastOp.kind))
       => (lastOp.outcome = DuplicateError /\ lastOp.ret = 0)

C1_Witness ==
  /\ IsAppend
  /\ lastOp.outcome = DuplicateError
  /\ Cardinality(AppendChildren(lastOp.target)) >= 1

\* C2: appending kind k to a fragment whose usedKinds holds a kind of strictly
\* greater order index is rejected with the out-of-order error, a repeated
\* class, attribute or pseudo-class after a higher kind included.  (Where the
\* call is also a duplicate element, id or pseudo-element, the duplicate error
\* of C10 is the rejection.)
C2_OutOfOrderRejected ==
  (IsAppend /\ HasHigher(lastOp.pre, lastOp.kind))
    => \/ lastOp.outcome = OrderError
       \/ /\ lastOp.outcome = DuplicateError
          /\ lastOp.kind \in SingletonKinds
          /\ Find(lastOp.pre, lastOp.kind)

\* C3: every fragment a successful append returned has usedKinds which,
\* deduplicated by first occurrence, is non-decreasing in order index, at
\* its return and after every later call.
C3_OrderInvariant ==
  \A f \in Objects :
    made[f].op = "append" => NonDecreasing(Dedup(UsedKinds(f)))

\* C4: a successful append of kind k on f returns g with g.usedKinds =
\* f.usedKinds ++ [k] and leaves f.usedKinds as it was, so an append that is
\* valid for f's own chain succeeds on f whatever was appended to f before.
C4_CopyOnAppend ==
  /\ (IsAppend /\ lastOp.outcome = NoError)
       => /\ UsedKinds(lastOp.ret) = Append(lastOp.pre, lastOp.kind)
          /\ UsedKinds(lastOp.target) = lastOp.pre
  /\ (IsAppend /\ LET chain == Append(OwnKinds(lastOp.target), lastOp.kind)
                  IN NonDecreasing(chain) /\ SingletonsOnce(chain))
       => lastOp.outcome = NoError

\* C5: a rejected append returns no fragment and leaves the text and the
\* usedKinds of the fragment it was called on as they were.
C5_RejectedAppendNoEffect ==
  (IsAppend /\ lastOp.outcome # NoError)
    => /\ lastOp.ret = 0
       /\ UsedKinds(lastOp.target) = lastOp.pre
       /\ stringify(objs[lastOp.target]) = ChainText(lastOp.target)

\* C6: appends made on the same fragment p do not touch p's text, and the
\* text of each fragment they return is p's text followed by that call's own
\* formatted value.
C6_BranchTextIndependence ==
  \A p \in Objects : \A g \in AppendChildren(p) :
    /\ stringify(objs[p]) = ChainText(p)
    /\ stringify(objs[g]) = stringify(objs[p]) \o Format(made[g].k, made[g].v)

C6_Witness ==
  \E p \in Objects \ {Facade} : \E g1 \in AppendChildren(p), g2 \in AppendChildren(p) :
    /\ made[g1].k = "class" /\ made[g2].k = "class"
    /\ made[g1].v # made[g2].v

\* a chain of appends started at the facade in which no fragment was used
\* twice: every fragment below the facade has one append child at most
RECURSIVE OnlyChildChain(_)
OnlyChildChain(f) ==
  \/ f = Facade
  \/ /\ made[f].op = "append"
     /\ \/ made[f].a = Facade
        \/ AppendChildren(made[f].a) = {f} /\ OnlyChildChain(made[f].a)

\* the last call continued such a chain at its tip (or started one)
LinearCall ==
  /\ IsAppend
  /\ \/ lastOp.target = Facade
     \/ /\ OnlyChildChain(lastOp.target)
        /\ AppendChildren(lastOp.target) \subseteq {lastOp.ret}
        /\ Len(lastOp.pre) = Len(OwnKinds(lastOp.target))

\* C7: in a linear chain started at the facade whose kinds are non-decreasing
\* in order index, with element, id and pseudo-element used once at most,
\* every append succeeds and the text is the formatted values in call order.
C7_AcceptedChains ==
  (LinearCall /\ LET chain == Append(OwnKinds(lastOp.target), lastOp.kind)
                 IN NonDecreasing(chain) /\ SingletonsOnce(chain))
    => /\ lastOp.outcome = NoError
       /\ lastOp.ret \in Objects
       /\ stringify(objs[lastOp.ret]) = ChainText(lastOp.ret)

C7_Witness ==
  /\ LinearCall
  /\ lastOp.outcome = NoError
  /\ OwnKinds(lastOp.ret) = <<"id", "class", "class">>
  /\ stringify(objs[lastOp.ret]) = "#a.b.a"

\* C8: combine never fails, leaves its operands as they were and returns a
\* new fragment whose text is stringify(left) + ' ' + combinator + ' ' +
\* stringify(right), for operands that are themselves combined too.
C8_CombineState ==
  /\ \A g \in Objects :
       made[g].op = "combine"
         => stringify(objs[g]) =
              stringify(objs[made[g].a]) \o " " \o made[g].v \o " " \o stringify(objs[made[g].b])
  /\ lastOp.op = "combine"
       => /\ lastOp.outcome = NoError
          /\ lastOp.ret \in Objects
          /\ made[lastOp.ret].op = "combine"

C8_CombineFrame ==
  lastOp'.op = "combine"
    => /\ heap' = heap
       /\ \A f \in DOMAIN objs : objs'[f] = objs[f]

C8_Combine == []C8_CombineState /\ [][C8_CombineFrame]_vars

C8_Witness ==
  /\ lastOp.op = "combine"
  /\ made[made[lastOp.ret].a].op = "combine"
  /\ made[made[lastOp.ret].b].op = "append"

\* C9: stringify never throws and changes no text and no usedKinds; the
\* string a fragment gives is the same before and after every call of any
\* operation; on the facade it is the empty string.
C9_StringifyState ==
  lastOp.op = "stringify"
    => /\ lastOp.outcome = NoError
       /\ lastOp.out = stringify(objs[lastOp.target])
       /\ lastOp.target = Facade => lastOp.out = ""

C9_StringifyFrame ==
  /\ \A f \in DOMAIN objs : stringify(objs'[f]) = stringify(objs[f])
  /\ lastOp'.op = "stringify" => (objs' = objs /\ heap' = heap)

C9_StringifyPure == []C9_StringifyState /\ [][C9_StringifyFrame]_vars

C9_Witness ==
  /\ lastOp.op = "stringify"
  /\ lastOp.target # Facade
  /\ inOrderCheck(UsedKinds(lastOp.target)) = OrderError

\* C10: an append of element, id or pseudo-element that is both a duplicate
\* and out of order throws the duplicate error, before any kind is recorded
\* and before any text is built.
C10_ValidationOrder ==
  (/\ IsAppend
   /\ lastOp.kind \in SingletonKinds
   /\ Find(lastOp.pre, lastOp.kind)
   /\ HasHigher(lastOp.pre, lastOp.kind))
    => /\ lastOp.outcome = DuplicateError
       /\ lastOp.ret = 0
       /\ UsedKinds(lastOp.target) = lastOp.pre
       /\ stringify(objs[lastOp.target]) = ChainText(lastOp.target)

C10_Witness ==
  /\ IsAppend
  /\ lastOp.kind = "id"
  /\ lastOp.outcome = DuplicateError
  /\ HasHigher(lastOp.pre, lastOp.kind)

\* C11: no call ever gives the facade a str or an arr; an append called on
\* the facade itself starts from the empty text and the empty usedKinds, so it
\* succeeds and returns a fragment holding just its own kind and its own
\* formatted value, whatever chains were built before.
C11_StatelessFacade ==
  /\ ~objs[Facade].hasStr
  /\ ~objs[Facade].hasArr
  /\ stringify(objs[Facade]) = ""
  /\ UsedKinds(Facade) = <<>>
  /\ (IsAppend /\ lastOp.target = Facade)
       => /\ lastOp.pre = <<>>
          /\ lastOp.outcome = NoError
          /\ lastOp.ret \in Objects
          /\ UsedKinds(lastOp.ret) = <<lastOp.kind>>
          /\ stringify(objs[lastOp.ret]) = Format(lastOp.kind, lastOp.value)

C11_Witness ==
  /\ IsAppend
  /\ lastOp.target = Facade
  /\ lastOp.kind = "element"
  /\ lastOp.outcome = NoError
  /\ \E g \in Objects \ {lastOp.ret} :
       /\ made[g].op = "append"
       /\ Find(UsedKinds(g), "element")
       /\ HasHigher(UsedKinds(g), "element")

\* C12: a fragment returned by combine has empty usedKinds and keeps it; an
\* append of any kind on it is accepted without a duplicate or order check
\* against either operand, and returns a fragment whose text is the combined
\* text followed by the formatted value and whose usedKinds is just that kind.
C12_AppendAfterCombine ==
  /\ \A g \in Objects : made[g].op = "combine" => UsedKinds(g) = <<>>
  /\ (IsAppend /\ made[lastOp.target].op = "combine")
       => /\ lastOp.pre = <<>>
          /\ lastOp.outcome = NoError
          /\ lastOp.ret \in Objects
          /\ UsedKinds(lastOp.ret) = <<lastOp.kind>>
          /\ stringify(objs[lastOp.ret]) =
               stringify(objs[lastOp.target]) \o Format(lastOp.kind, lastOp.value)

C12_Witness ==
  /\ IsAppend
  /\ made[lastOp.target].op = "combine"
  /\ lastOp.outcome = NoError
  /\ lastOp.kind \in SingletonKinds
  /\ \E side \in {made[lastOp.target].a, made[lastOp.target].b} :
       /\ Find(UsedKinds(side), lastOp.kind)
       /\ HasHigher(UsedKinds(side), lastOp.kind)
====
